---- MODULE Spec2Model ----
(***************************************************************************)
(* A model of src/src/draft.rs: the Nock noun (atoms as little-endian      *)
(* base-256 digit vectors, cells as pairs of reference-counted nouns), the *)
(* memoizing fold behind Hash, the evaluator nock_on, the text parser      *)
(* (FromStr) and the printer (Display).                                    *)
(*                                                                         *)
(* Three specifications share the module:                                  *)
(*   SpecNoun  builds nouns on a heap of Rc boxes, compares and hashes;    *)
(*   SpecEval  runs nock_on as a machine with an explicit call stack;      *)
(*   SpecText  parses a text, prints the noun and parses the print again.  *)
(***************************************************************************)
EXTENDS Integers, Sequences, FiniteSets, TLC

VARIABLES heap, pool, cmp,
          subject0, formula0, stack, ret, result,
          kind, elts, text, parsed, printed, reparsed

nounVars == <<heap, pool, cmp>>
evalVars == <<subject0, formula0, stack, ret, result>>
textVars == <<kind, elts, text, parsed, printed, reparsed>>
vars == <<heap, pool, cmp, subject0, formula0, stack, ret, result,
          kind, elts, text, parsed, printed, reparsed>>

\* A slot that holds nothing yet.
None == [k |-> "none"]

(***************************************************************************)
(* Nouns.  An atom holds its digit vector as given; a cell holds its two   *)
(* children.  On the heap (SpecNoun) a cell's children are addresses of Rc *)
(* boxes; in SpecEval and SpecText, where addresses play no part, they are *)
(* the child nouns themselves.                                             *)
(***************************************************************************)
Atom(digits) == [t |-> "atom", d |-> digits]

Cell(a, b) == [t |-> "cell", l |-> a, r |-> b]

IsAtom(n) == n.t = "atom"

IsCell(n) == n.t = "cell"

\* #[derive(PartialEq)] on Noun/Inner for nouns held by value: same variant,
\* equal digit vectors (Vec<u8> equality), equal children.
RECURSIVE Noun_eq(_, _)
Noun_eq(x, y) ==
    IF IsAtom(x) /\ IsAtom(y) THEN x.d = y.d
    ELSE IF IsCell(x) /\ IsCell(y) THEN Noun_eq(x.l, y.l) /\ Noun_eq(x.r, y.r)
    ELSE FALSE

(***************************************************************************)
(* SpecNoun: the heap of Rc<Noun> boxes.                                   *)
(***************************************************************************)
\* Longest run of appended zero digits, and how many nouns a program holds.
MaxPad == 1
MaxPool == 5

RECURSIVE Zeros(_)
Zeros(k) == IF k = 0 THEN <<>> ELSE <<0>> \o Zeros(k - 1)

BaseDigits == {<<>>, <<5>>}

AtomInputs == {d \o Zeros(k) : d \in BaseDigits, k \in 0..MaxPad}

\* The address of a noun held in a local (not in any Rc box).
RootAddr == 0

\* Noun::atom: the digits are copied as they are.
Noun_atom(digits) == Atom(digits)

\* #[derive(PartialEq)] through Rc: Rc<T> compares the pointees.
RECURSIVE Inner_eq(_, _, _)
Inner_eq(hp, x, y) ==
    IF IsAtom(x) /\ IsAtom(y) THEN x.d = y.d
    ELSE IF IsCell(x) /\ IsCell(y)
         THEN Inner_eq(hp, hp[x.l], hp[y.l]) /\ Inner_eq(hp, hp[x.r], hp[y.r])
    ELSE FALSE

\* The hasher: its state is the sequence of words written so far, and
\* finish() a digest of that sequence.
HashMod == 65521

RECURSIVE Hasher_finish(_)
Hasher_finish(st) ==
    IF st = <<>> THEN 7
    ELSE (Hasher_finish(SubSeq(st, 1, Len(st) - 1)) * 31 + st[Len(st)] + 1) % HashMod

\* <[u8] as Hash>::hash: the length, then the bytes.
Slice_hash(st, digits) == st \o <<Len(digits)>> \o digits

\* The closure f of Hash::hash: write the atom's digits or the two child
\* hashes into the hasher, return finish().
Hash_f(st, shape) ==
    LET st1 == IF shape.t = "atom" THEN Slice_hash(st, shape.d)
               ELSE st \o <<shape.l, shape.r>>
    IN  [st |-> st1, ret |-> Hasher_finish(st1)]

\* Noun::fold's helper h with f = Hash_f: memo is keyed by the address of
\* the noun; a hit returns the stored value and calls f not at all.
RECURSIVE Fold_h(_, _, _, _, _)
Fold_h(hp, key, noun, memo, st) ==
    IF key \in DOMAIN memo
    THEN [ret |-> memo[key], memo |-> memo, st |-> st]
    ELSE IF IsAtom(noun)
    THEN LET o == Hash_f(st, noun)
         IN  [ret |-> o.ret, memo |-> memo @@ (key :> o.ret), st |-> o.st]
    ELSE LET a == Fold_h(hp, noun.l, hp[noun.l], memo, st)
             b == Fold_h(hp, noun.r, hp[noun.r], a.memo, a.st)
             o == Hash_f(b.st, [t |-> "cell", l |-> a.ret, r |-> b.ret])
         IN  [ret |-> o.ret, memo |-> b.memo @@ (key :> o.ret), st |-> o.st]

\* impl Hash for Noun: fold with a fresh memo, then write the result.
Noun_hash(hp, noun, st) ==
    LET o == Fold_h(hp, RootAddr, noun, [a \in {} |-> 0], st)
    IN  Append(o.st, o.ret)

\* tests::hash: a new hasher, t.hash(&mut s), s.finish().
Test_hash(hp, noun) == Hasher_finish(Noun_hash(hp, noun, <<>>))

NounIdle == heap = <<>> /\ pool = <<>> /\ cmp = None
EvalIdle == subject0 = None /\ formula0 = None /\ stack = <<>>
            /\ ret = None /\ result = None
TextIdle == kind = "idle" /\ elts = <<>> /\ text = <<>> /\ parsed = None
            /\ printed = None /\ reparsed = None

InitNoun == NounIdle /\ EvalIdle /\ TextIdle

\* let x = Noun::atom(digits);
NewAtom(digits) ==
    /\ cmp = None
    /\ Len(pool) < MaxPool
    /\ pool' = Append(pool, Noun_atom(digits))
    /\ UNCHANGED <<heap, cmp>>
    /\ UNCHANGED evalVars /\ UNCHANGED textVars

\* let x = Noun::cell(pool[i].clone(), pool[j].clone()): each argument moves
\* into an Rc box of its own; a cloned cell still points at the boxes of the
\* cell it was cloned from.
NewCell(i, j) ==
    /\ cmp = None
    /\ Len(pool) < MaxPool
    /\ heap' = heap \o <<pool[i], pool[j]>>
    /\ pool' = Append(pool, Cell(Len(heap) + 1, Len(heap) + 2))
    /\ UNCHANGED cmp
    /\ UNCHANGED evalVars /\ UNCHANGED textVars

\* x == y, and hash(&x), hash(&y) as tests::test_fold takes them.
Compare(i, j) ==
    /\ cmp = None
    /\ cmp' = [k |-> "cmp", x |-> i, y |-> j,
               eq |-> Inner_eq(heap, pool[i], pool[j]),
               sx |-> Noun_hash(heap, pool[i], <<>>),
               sy |-> Noun_hash(heap, pool[j], <<>>),
               hx |-> Test_hash(heap, pool[i]),
               hy |-> Test_hash(heap, pool[j])]
    /\ UNCHANGED <<heap, pool>>
    /\ UNCHANGED evalVars /\ UNCHANGED textVars

NextNoun ==
    \/ \E d \in AtomInputs : NewAtom(d)
    \/ \E i, j \in 1..Len(pool) : NewCell(i, j)
    \/ \E i, j \in 1..Len(pool) : i <= j /\ Compare(i, j)

SpecNoun == InitNoun /\ [][NextNoun]_vars

(***************************************************************************)
(* Claims about nouns, checked under SpecNoun.                             *)
(***************************************************************************)
\* y is x followed by some zero digits.
PaddedFrom(x, y) == \E k \in 0..MaxPad : y = x \o Zeros(k)

\* C1: noun equality is structural and blind to appended zero digits: the
\* atom built from d equals the atom built from d followed by k zeros, and
\* two cells are equal iff their left children and their right children are.
C1_EqIgnoresPadding ==
    cmp.k = "cmp" =>
        LET x == pool[cmp.x]
            y == pool[cmp.y]
        IN  /\ (IsAtom(x) /\ IsAtom(y)
                /\ (PaddedFrom(x.d, y.d) \/ PaddedFrom(y.d, x.d))) => cmp.eq
            /\ (IsCell(x) /\ IsCell(y)) =>
                 (cmp.eq <=> (Inner_eq(heap, heap[x.l], heap[y.l])
                              /\ Inner_eq(heap, heap[x.r], heap[y.r])))

\* C2: equal nouns hash alike: whenever x == y, hashing them from the same
\* hasher state writes the same words and gives the same hash value, shared
\* sub-nouns or not.
C2_HashConsistent ==
    (cmp.k = "cmp" /\ cmp.eq) => (cmp.sx = cmp.sy /\ cmp.hx = cmp.hy)

(***************************************************************************)
(* SpecEval: nock_on.                                                      *)
(***************************************************************************)
\* Largest small atom offered as an opcode or an operand.
MaxAtom == 4

\* Result and Option values.
Ok(n) == [k |-> "ok", v |-> n]
Err == [k |-> "err"]
Panic == [k |-> "panic"]
Some(v) == [k |-> "some", v |-> v]

\* A digit vector without its high-order zero digits.
RECURSIVE Strip(_)
Strip(d) ==
    IF d # <<>> /\ d[Len(d)] = 0 THEN Strip(SubSeq(d, 1, Len(d) - 1)) ELSE d

\* DigitSlice::as_digits of an unsigned integer: its little-endian base-256
\* digits, none for zero.
RECURSIVE NatDigits(_)
NatDigits(n) == IF n = 0 THEN <<>> ELSE <<n % 256>> \o NatDigits(n \div 256)

\* Noun::from(n) for an unsigned host integer n.
NatAtom(n) == Noun_atom(NatDigits(n))

\* u32::from_digits: the value when it fits four digits.  The value is kept
\* as its own digit vector, Some(NatDigits(n)) standing for Some(n).
U32_from_digits(d) == IF Len(Strip(d)) <= 4 THEN Some(Strip(d)) ELSE None

\* Noun::as_u32.
as_u32(noun) == IF IsAtom(noun) THEN U32_from_digits(noun.d) ELSE None

\* fn axis: unimplemented!().
axis(atom, subject) == Panic

\* nock_on as a function of its arguments: the loop unrolled into recursion.
RECURSIVE NockOn(_, _)
NockOn(subject, formula) ==
    IF ~IsCell(formula) THEN Err
    ELSE LET ops == formula.l
             tail == formula.r
             op == as_u32(ops)
         IN  IF op = Some(NatDigits(0))
               THEN IF IsAtom(tail) THEN axis(tail.d, subject) ELSE Err
             ELSE IF op = Some(NatDigits(1)) THEN Ok(tail)
             ELSE IF op = Some(NatDigits(2))
               THEN IF IsCell(tail)
                    THEN LET p == NockOn(subject, tail.l)
                         IN  IF p.k # "ok" THEN p
                             ELSE LET q == NockOn(subject, tail.r)
                                  IN  IF q.k # "ok" THEN q
                                      ELSE NockOn(p.v, q.v)
                    ELSE Err
             ELSE IF op = Some(NatDigits(3))
               THEN LET p == NockOn(subject, tail)
                    IN  IF p.k # "ok" THEN p
                        ELSE IF IsCell(p.v) THEN Ok(NatAtom(0))
                        ELSE Ok(NatAtom(1))
             ELSE IF op = None
               THEN IF IsCell(ops)
                    THEN LET a == NockOn(subject, ops.l)
                         IN  IF a.k # "ok" THEN a
                             ELSE LET b == NockOn(subject, ops.r)
                                  IN  IF b.k # "ok" THEN b
                                      ELSE Ok(Cell(a.v, b.v))
                    ELSE Err
             ELSE Err

\* The inputs.
BigAtom == Noun_atom(<<0, 0, 0, 0, 1>>)
EvalAtoms == {NatAtom(n) : n \in 0..MaxAtom} \cup {BigAtom}
Nouns1 == EvalAtoms \cup {Cell(a, b) : a, b \in EvalAtoms}
Nouns2 == Nouns1 \cup {Cell(x, y) : x, y \in Nouns1}
JustOf(S) == {Cell(NatAtom(1), n) : n \in S}
FireOf(B, C) == {Cell(NatAtom(2), Cell(b, c)) : b \in B, c \in C}
FireFormulas == FireOf(Nouns1, Nouns1 \cup JustOf(Nouns1))
SmallFires == FireOf(JustOf(EvalAtoms), JustOf(JustOf(EvalAtoms)))
NestedFires == FireOf(SmallFires, Nouns1 \cup JustOf(Nouns1))
                  \cup FireOf(JustOf(EvalAtoms), JustOf(SmallFires))
Operands == EvalAtoms \cup JustOf(EvalAtoms)
ConsFormulas == {Cell(Cell(f, g), t) : f, g \in Operands, t \in Operands}
WrappedFires == {Cell(a, f) : a \in EvalAtoms,
                              f \in SmallFires \cup FireOf(JustOf(EvalAtoms), Operands)}
Formulas == Nouns2 \cup FireFormulas \cup NestedFires \cup ConsFormulas
               \cup WrappedFires
Subjects == {NatAtom(MaxAtom), Cell(NatAtom(1), NatAtom(2))}

\* A call frame of nock_on: the loop's subject and formula, where the frame
\* stands, and the first value it is holding (p of Fire, a of Autocons).
Nil == [t |-> "nil"]
Frame(s, f) == [subject |-> s, formula |-> f, pc |-> "loop", p |-> Nil]
Top == stack[Len(stack)]
Below == SubSeq(stack, 1, Len(stack) - 1)
AtLoop == result = None /\ stack # <<>> /\ ret = None /\ Top.pc = "loop"
Resumed(pc) == result = None /\ stack # <<>> /\ ret # None /\ Top.pc = pc

\* return v: the frame is gone; the caller, if any, finds v.
Return(v) ==
    /\ stack' = Below
    /\ IF Len(stack) = 1
       THEN result' = v /\ ret' = None
       ELSE ret' = v /\ UNCHANGED result

\* a panic unwinds every frame of the call.
Unwind ==
    /\ stack' = <<>>
    /\ ret' = None
    /\ result' = Panic

\* nock_on(s, f) called from the top frame, which waits at pc holding p.
Call(s, f, pc, p) ==
    /\ stack' = Below \o <<[Top EXCEPT !.pc = pc, !.p = p], Frame(s, f)>>
    /\ ret' = None
    /\ UNCHANGED result

Others == UNCHANGED <<subject0, formula0>> /\ UNCHANGED nounVars
          /\ UNCHANGED textVars

InitEval ==
    /\ NounIdle /\ TextIdle
    /\ subject0 \in Subjects
    /\ formula0 \in Formulas
    /\ stack = <<Frame(subject0, formula0)>>
    /\ ret = None
    /\ result = None

\* else { return Err(NockError) }: the formula is no cell.
FormulaAtom ==
    /\ AtLoop /\ ~IsCell(Top.formula)
    /\ Return(Err)
    /\ Others

\* Some(0): Axis.
OpAxis ==
    /\ AtLoop /\ IsCell(Top.formula)
    /\ as_u32(Top.formula.l) = Some(NatDigits(0))
    /\ IF IsAtom(Top.formula.r)
       THEN LET r == axis(Top.formula.r.d, Top.subject)
            IN  IF r.k = "panic" THEN Unwind ELSE Return(r)
       ELSE Return(Err)
    /\ Others

\* Some(1): Just.
OpJust ==
    /\ AtLoop /\ IsCell(Top.formula)
    /\ as_u32(Top.formula.l) = Some(NatDigits(1))
    /\ Return(Ok(Top.formula.r))
    /\ Others

\* Some(2): Fire, up to the call that evaluates b.
OpFire ==
    /\ AtLoop /\ IsCell(Top.formula)
    /\ as_u32(Top.formula.l) = Some(NatDigits(2))
    /\ IF IsCell(Top.formula.r)
       THEN Call(Top.subject, Top.formula.r.l, "fire_p", Nil)
       ELSE Return(Err)
    /\ Others

\* Fire: p is there; the call that evaluates c, against the same subject.
FireP ==
    /\ Resumed("fire_p") /\ ret.k = "ok"
    /\ Call(Top.subject, Top.formula.r.r, "fire_q", ret.v)
    /\ Others

\* FireQ with the two results taken the wrong way round.
FireQ_swapped ==
    /\ Resumed("fire_q") /\ ret.k = "ok"
    /\ stack' = Below \o <<Frame(ret.v, Top.p)>>
    /\ ret' = None
    /\ UNCHANGED result
    /\ Others

\* FireQ that goes round the loop with the formula it already had.
FireQ_again ==
    /\ Resumed("fire_q") /\ ret.k = "ok"
    /\ stack' = Below \o <<Frame(Top.p, Top.formula)>>
    /\ ret' = None
    /\ UNCHANGED result
    /\ Others

\* Fire: q is there; subject = p; formula = q; continue.
FireQ ==
    /\ Resumed("fire_q") /\ ret.k = "ok"
    /\ stack' = Below \o <<Frame(Top.p, ret.v)>>
    /\ ret' = None
    /\ UNCHANGED result
    /\ Others

\* Some(3): Depth, up to the call that evaluates the tail.
OpDepth ==
    /\ AtLoop /\ IsCell(Top.formula)
    /\ as_u32(Top.formula.l) = Some(NatDigits(3))
    /\ Call(Top.subject, Top.formula.r, "depth_p", Nil)
    /\ Others

\* Depth: 0 for a cell, 1 for an atom.
DepthP ==
    /\ Resumed("depth_p") /\ ret.k = "ok"
    /\ Return(IF IsCell(ret.v) THEN Ok(NatAtom(0)) ELSE Ok(NatAtom(1)))
    /\ Others

\* None: the head is no small atom.  Autocons when it is a cell, whose two
\* children are evaluated (the inner pattern's tail shadows the formula's).
OpNone ==
    /\ AtLoop /\ IsCell(Top.formula)
    /\ as_u32(Top.formula.l) = None
    /\ IF IsCell(Top.formula.l)
       THEN Call(Top.subject, Top.formula.l.l, "cons_a", Nil)
       ELSE Return(Err)
    /\ Others

\* Autocons: a is there; the call that evaluates the second formula.
ConsA ==
    /\ Resumed("cons_a") /\ ret.k = "ok"
    /\ Call(Top.subject, Top.formula.l.r, "cons_b", ret.v)
    /\ Others

\* Autocons: return Ok(Noun::cell(a, b)).
ConsB ==
    /\ Resumed("cons_b") /\ ret.k = "ok"
    /\ Return(Ok(Cell(Top.p, ret.v)))
    /\ Others

\* _ => return Err(NockError): any other small atom, 4 to 10 included.
OpOther ==
    /\ AtLoop /\ IsCell(Top.formula)
    /\ as_u32(Top.formula.l) \notin
           {None, Some(NatDigits(0)), Some(NatDigits(1)), Some(NatDigits(2)),
            Some(NatDigits(3))}
    /\ Return(Err)
    /\ Others

\* try!: an Err from a nested call is returned at once.
TryErr ==
    /\ result = None /\ stack # <<>> /\ ret = Err
    /\ Return(Err)
    /\ Others

NextEval ==
    \/ FormulaAtom
    \/ OpAxis
    \/ OpJust
    \/ OpFire
    \/ FireP
    \/ FireQ
    \/ OpDepth
    \/ DepthP
    \/ OpNone
    \/ ConsA
    \/ ConsB
    \/ OpOther
    \/ TryErr

SpecEval == InitEval /\ [][NextEval]_vars

\* nock_on is sequential code: a call that can take a step takes it.
SpecEvalFair == SpecEval /\ WF_vars(NextEval)

\* The machine and the function agree on every finished call.
EvalAgrees == result # None => result = NockOn(subject0, formula0)

(***************************************************************************)
(* Claims about the evaluator, checked under SpecEval.                     *)
(***************************************************************************)
\* The number a digit vector stands for (short vectors only).
RECURSIVE DigitsNat(_)
DigitsNat(d) == IF d = <<>> THEN 0 ELSE d[1] + 256 * DigitsNat(Tail(d))

\* The digit vector of the next number.
RECURSIVE Succ(_)
Succ(d) ==
    IF d = <<>> THEN <<1>>
    ELSE IF d[1] < 255 THEN <<d[1] + 1>> \o Tail(d)
    ELSE <<0>> \o Succ(Tail(d))

\* Axis a of noun n as the claim words it: 1 is n itself, an even a is axis
\* a/2 of the left child, an odd a axis (a-1)/2 of the right child.
RECURSIVE SlotOf(_, _)
SlotOf(a, n) ==
    IF a = 1 THEN Ok(n)
    ELSE IF a = 0 \/ ~IsCell(n) THEN Err
    ELSE IF a % 2 = 0 THEN SlotOf(a \div 2, n.l)
    ELSE SlotOf((a - 1) \div 2, n.r)

Done == result # None
HeadIs(n) == IsCell(formula0) /\ formula0.l = NatAtom(n)

\* C3: nock_on(subject, [0 a]), for an atom a >= 1 whose path stays inside
\* the subject, returns Ok of the sub-noun at axis a.
C3_AxisAddressing ==
    (Done /\ HeadIs(0) /\ IsAtom(formula0.r) /\ Len(Strip(formula0.r.d)) <= 3) =>
        LET a == DigitsNat(Strip(formula0.r.d))
        IN  (a >= 1 /\ SlotOf(a, subject0).k = "ok") =>
                result = SlotOf(a, subject0)

\* C4: nock_on(subject, [4 f]) returns Ok(p + 1) when nock_on(subject, f)
\* returns the atom p, and Err when it returns a cell.
C4_Bump ==
    (Done /\ HeadIs(4)) =>
        LET p == NockOn(subject0, formula0.r)
        IN  /\ (p.k = "ok" /\ IsAtom(p.v)) =>
                 (result.k = "ok" /\ IsAtom(result.v)
                  /\ Strip(result.v.d) = Strip(Succ(Strip(p.v.d))))
            /\ (p.k = "ok" /\ IsCell(p.v)) => result = Err

\* C5: for a formula [n t] whose head n is a cell, nock_on returns
\* Ok(Cell(a, b)) with a = nock_on(subject, n) and b = nock_on(subject, t),
\* n the formula's head and t the formula's tail, and Err when either fails.
C5_Autocons ==
    (Done /\ IsCell(formula0) /\ IsCell(formula0.l)) =>
        LET a == NockOn(subject0, formula0.l)
            b == NockOn(subject0, formula0.r)
        IN  /\ (a.k = "ok" /\ b.k = "ok") => result = Ok(Cell(a.v, b.v))
            /\ (a = Err \/ (a.k = "ok" /\ b = Err)) => result = Err

\* The outcome of [2 b c]: that of nock_on(p, q), p and q the values of b and
\* c against the original subject; Err for an atom tail or a failed b or c.
FireOutcome ==
    (Done /\ HeadIs(2)) =>
        IF ~IsCell(formula0.r) THEN result = Err
        ELSE LET p == NockOn(subject0, formula0.r.l)
                 q == NockOn(subject0, formula0.r.r)
             IN  /\ (p.k = "ok" /\ q.k = "ok") => result = NockOn(p.v, q.v)
                 /\ (p = Err \/ (p.k = "ok" /\ q = Err)) => result = Err

\* The frames of a Fire: evaluating b and evaluating c each push one frame
\* on the frame that runs the Fire, each against that frame's subject; the
\* continuation pushes none and leaves the frame with (p, q).
FireFrames ==
    /\ (AtLoop /\ IsCell(Top.formula) /\ Top.formula.l = NatAtom(2)
        /\ IsCell(Top.formula.r)) =>
            /\ Len(stack') = Len(stack) + 1
            /\ stack'[Len(stack')] = Frame(Top.subject, Top.formula.r.l)
    /\ (Resumed("fire_p") /\ ret.k = "ok") =>
            /\ Len(stack') = Len(stack) + 1
            /\ stack'[Len(stack')] = Frame(Top.subject, Top.formula.r.r)
    /\ (Resumed("fire_q") /\ ret.k = "ok") =>
            /\ Len(stack') = Len(stack)
            /\ stack'[Len(stack')] = Frame(Top.p, ret.v)

\* C6: Fire.  nock_on(subject, [2 b c]) gives the outcome of nock_on(p, q)
\* with p = nock_on(subject, b) and q = nock_on(subject, c); the continuation
\* is the loop's next iteration, so only the evaluations of b and c add a
\* call frame; an atom tail or a failing b or c gives Err.
C6_Fire == []FireOutcome /\ [][FireFrames]_vars

\* A Fire whose b and c both evaluated, which went round the loop and
\* returned a noun.
C6_Witness ==
    /\ Done /\ HeadIs(2) /\ IsCell(formula0.r)
    /\ NockOn(subject0, formula0.r.l).k = "ok"
    /\ NockOn(subject0, formula0.r.r).k = "ok"
    /\ result.k = "ok"

\* C7: every failure is the value Err(NockError), never a crash: a bare
\* atom formula, an op atom outside 0..10, a tail of the wrong shape, axis 0
\* and an axis that leaves the subject all return Err.
C7_FailuresAreErr ==
    Done =>
        /\ result # Panic
        /\ IsAtom(formula0) => result = Err
        /\ (IsCell(formula0) /\ formula0.l = BigAtom) => result = Err
        /\ (HeadIs(0) /\ IsCell(formula0.r)) => result = Err
        /\ (HeadIs(2) /\ IsAtom(formula0.r)) => result = Err
        /\ (HeadIs(0) /\ formula0.r = NatAtom(0)) => result = Err
        /\ (HeadIs(0) /\ IsAtom(formula0.r) /\ IsAtom(subject0)
            /\ formula0.r \in {NatAtom(2), NatAtom(3)}) => result = Err

(***************************************************************************)
(* SpecText: FromStr and Display.  A text is a sequence of characters.     *)
(***************************************************************************)
\* Longest free text, longest digit run, most nouns between two brackets.
MaxTextLen == 5
MaxDigitRun == 7
MaxElts == 3

ParseErr == [k |-> "parse_err"]

DigitChars == <<"0", "1", "2", "3", "4", "5", "6", "7", "8", "9">>

\* char::is_digit(10) and char::is_whitespace.
is_digit(c) == \E i \in 1..10 : DigitChars[i] = c
is_whitespace(c) == c \in {" ", "\t", "\n", "\r"}
DigitValue(c) == (CHOOSE i \in 1..10 : DigitChars[i] = c) - 1

\* BigUint arithmetic on little-endian base-256 digit vectors: d * m + c, and
\* d divided by m (quotient with its high-order zeros, and remainder).
RECURSIVE MulAdd(_, _, _)
MulAdd(d, m, c) ==
    IF d = <<>> THEN NatDigits(c)
    ELSE <<(d[1] * m + c) % 256>> \o MulAdd(Tail(d), m, (d[1] * m + c) \div 256)

RECURSIVE DivMod(_, _)
DivMod(d, m) ==
    IF d = <<>> THEN [q |-> <<>>, r |-> 0]
    ELSE LET hi == DivMod(Tail(d), m)
             cur == hi.r * 256 + d[1]
         IN  [q |-> <<cur \div m>> \o hi.q, r |-> cur % m]

\* str::parse::<BigUint>() of a run of decimal digits, then as_digits.
RECURSIVE BigUint_parse(_)
BigUint_parse(buf) ==
    IF buf = <<>> THEN <<>>
    ELSE MulAdd(BigUint_parse(SubSeq(buf, 1, Len(buf) - 1)), 10,
                DigitValue(buf[Len(buf)]))

\* format!("{}", BigUint::from_digits(digits)): the decimal digits, "0" for
\* zero, no leading zeros.
RECURSIVE BigUint_decimal(_)
BigUint_decimal(digits) ==
    LET d == Strip(digits)
        qr == DivMod(d, 10)
        q == Strip(qr.q)
    IN  IF d = <<>> THEN <<"0">>
        ELSE (IF q = <<>> THEN <<>> ELSE BigUint_decimal(q))
                 \o <<DigitChars[qr.r + 1]>>

\* Vec::reverse.
RECURSIVE Reverse(_)
Reverse(v) == IF v = <<>> THEN <<>> ELSE Reverse(Tail(v)) \o <<Head(v)>>

\* The fold of from_iter: the first item is kept, each later one is consed
\* in front of what is there.
RECURSIVE FoldItems(_, _)
FoldItems(v, acc) ==
    IF v = <<>> THEN acc
    ELSE FoldItems(Tail(v), IF acc = None THEN Head(v) ELSE Cell(Head(v), acc))

\* from_iter with the reverse left out.
from_iter_unreversed(items) == FoldItems(items, None)

\* impl FromIterator<Noun> for Noun (the list is never empty here).
from_iter(items) == FoldItems(Reverse(items), None)

\* eat_space: the position of the next character that is no whitespace.
RECURSIVE eat_space(_, _)
eat_space(s, i) ==
    IF i <= Len(s) /\ is_whitespace(s[i]) THEN eat_space(s, i + 1) ELSE i

Parsed(n, pos) == [k |-> "ok", v |-> n, pos |-> pos]

\* parse_atom from position i with the digits read so far in buf.
RECURSIVE parse_atom(_, _, _)
parse_atom(s, i, buf) ==
    LET done == IF buf = <<>> THEN ParseErr
                ELSE Parsed(Noun_atom(BigUint_parse(buf)), i)
    IN  IF i > Len(s) THEN done
        ELSE IF is_digit(s[i]) THEN parse_atom(s, i + 1, Append(buf, s[i]))
        ELSE IF s[i] = "." THEN parse_atom(s, i + 1, buf)
        ELSE IF s[i] = "[" \/ s[i] = "]" \/ is_whitespace(s[i]) THEN done
        ELSE ParseErr

RECURSIVE parse(_, _)
RECURSIVE parse_cell(_, _)
RECURSIVE parse_more(_, _, _)

\* parse: skip whitespace, then an atom or a cell by the next character.
parse(s, i) ==
    LET j == eat_space(s, i)
    IN  IF j <= Len(s) /\ is_digit(s[j]) THEN parse_atom(s, j, <<>>)
        ELSE IF j <= Len(s) /\ s[j] = "[" THEN parse_cell(s, j)
        ELSE ParseErr

\* parse_cell at the '[' in position i: two nouns, then the trailing ones.
parse_cell(s, i) ==
    LET a == parse(s, i + 1)
    IN  IF a.k # "ok" THEN ParseErr
        ELSE LET b == parse(s, a.pos)
             IN  IF b.k # "ok" THEN ParseErr
                 ELSE parse_more(s, b.pos, <<a.v, b.v>>)

\* the loop of parse_cell: further nouns up to the closing bracket.
parse_more(s, i, items) ==
    LET j == eat_space(s, i)
    IN  IF j > Len(s) THEN ParseErr
        ELSE IF is_digit(s[j])
          THEN LET e == parse_atom(s, j, <<>>)
               IN  IF e.k # "ok" THEN ParseErr
                   ELSE parse_more(s, e.pos, Append(items, e.v))
        ELSE IF s[j] = "["
          THEN LET e == parse_cell(s, j)
               IN  IF e.k # "ok" THEN ParseErr
                   ELSE parse_more(s, e.pos, Append(items, e.v))
        ELSE IF s[j] = "]" THEN Parsed(from_iter(items), j + 1)
        ELSE ParseErr

\* Noun::from_str: the result of parse, whatever follows it in the text.
from_str(s) ==
    LET r == parse(s, 1)
    IN  IF r.k = "ok" THEN Ok(r.v) ELSE ParseErr

\* dot_separators: a '.' before every digit whose index is 3-congruent to
\* the length.
RECURSIVE dot_loop(_, _, _)
dot_loop(s, i, phase) ==
    IF i >= Len(s) THEN <<>>
    ELSE (IF i > 0 /\ i % 3 = phase THEN <<".">> ELSE <<>>)
             \o <<s[i + 1]>> \o dot_loop(s, i + 1, phase)

\* dot_separators counting the groups of three from the left.
dot_separators_left(digits) ==
    LET s == BigUint_decimal(digits)
    IN  dot_loop(s, 0, 0)

dot_separators(digits) ==
    LET s == BigUint_decimal(digits)
    IN  dot_loop(s, 0, Len(s) % 3)

RECURSIVE Display(_)
RECURSIVE Display_nested(_)
RECURSIVE Display_tail(_)

\* Display that prints the right child as a noun of its own.
Display_nested(n) ==
    IF IsAtom(n) THEN dot_separators(n.d)
    ELSE <<"[">> \o Display_nested(n.l) \o <<" ">> \o Display_nested(n.r)
             \o <<"]">>

\* the list pretty-printer loop of Display, cur being what is left.
Display_tail(cur) ==
    IF IsCell(cur) THEN Display(cur.l) \o <<" ">> \o Display_tail(cur.r)
    ELSE dot_separators(cur.d) \o <<"]">>

\* impl fmt::Display for Noun.
Display(n) ==
    IF IsAtom(n) THEN dot_separators(n.d)
    ELSE <<"[">> \o Display(n.l) \o <<" ">> \o Display_tail(n.r)

\* The inputs: every short text over Alphabet; runs of digits; the texts of
\* the parser test; and bracketed lists "[n1 n2 ... nk]" of written nouns.
Alphabet == {"0", "1", ".", "[", "]", " ", "a"}
ShortTexts == UNION {[1..n -> Alphabet] : n \in 0..MaxTextLen}
DigitRuns == UNION {[1..n -> {"0", "1", "9"}] : n \in 1..MaxDigitRun}
TestTexts ==
    {<<"1", "2", "a", "b">>,
     <<"1", ".", "0", "0", "0", ".", "0", "0", "0">>,
     <<"4", "2", "9", "4", "9", "6", "7", "2", "9", "5">>,
     <<"4", "2", "9", "4", "9", "6", "7", "2", "9", "6">>,
     <<"[", "1", " ", "[", "2", " ", "3", "]", "]">>,
     <<"[", "[", "1", " ", "2", "]", " ", "3", "]">>,
     <<"[", "1", "[", "2", " ", "3", "]", "]">>,
     <<"[", "[", "1", " ", "2", "]", "3", "]">>,
     <<"[", "1", " ", "2", " ", "3">>,
     <<"[", "1", " ", "2", "]", " ", "3">>}
RawTexts == ShortTexts \cup DigitRuns \cup TestTexts

\* A noun written with every bracket and no separator dots.
RECURSIVE Written(_)
Written(n) ==
    IF IsAtom(n) THEN BigUint_decimal(n.d)
    ELSE <<"[">> \o Written(n.l) \o <<" ">> \o Written(n.r) \o <<"]">>

RECURSIVE Joined(_)
Joined(items) ==
    IF Len(items) = 1 THEN Written(items[1])
    ELSE Written(items[1]) \o <<" ">> \o Joined(Tail(items))

ListText(items) == <<"[">> \o Joined(items) \o <<"]">>

EltNouns == {NatAtom(1), NatAtom(2), NatAtom(3), NatAtom(1000),
             Cell(NatAtom(1), NatAtom(2)), Cell(NatAtom(2), NatAtom(3))}
EltLists == UNION {[1..n -> EltNouns] : n \in 2..MaxElts}

InitText ==
    /\ NounIdle /\ EvalIdle
    /\ \/ kind = "raw" /\ elts = <<>> /\ text \in RawTexts
       \/ kind = "list" /\ elts \in EltLists /\ text = ListText(elts)
    /\ parsed = None
    /\ printed = None
    /\ reparsed = None

\* text.parse::<Noun>()
Parse ==
    /\ kind # "idle" /\ parsed = None
    /\ parsed' = from_str(text)
    /\ UNCHANGED <<kind, elts, text, printed, reparsed>>
    /\ UNCHANGED nounVars /\ UNCHANGED evalVars

\* format!("{}", noun)
Show ==
    /\ parsed.k = "ok" /\ printed = None
    /\ printed' = [k |-> "text", s |-> Display(parsed.v)]
    /\ UNCHANGED <<kind, elts, text, parsed, reparsed>>
    /\ UNCHANGED nounVars /\ UNCHANGED evalVars

\* the printed text parsed again
Reparse ==
    /\ printed # None /\ reparsed = None
    /\ reparsed' = from_str(printed.s)
    /\ UNCHANGED <<kind, elts, text, parsed, printed>>
    /\ UNCHANGED nounVars /\ UNCHANGED evalVars

NextText ==
    \/ Parse
    \/ Show
    \/ Reparse

SpecText == InitText /\ [][NextText]_vars

(***************************************************************************)
(* Claims about the parser and the printer, checked under SpecText.        *)
(***************************************************************************)
\* The grammar of the claim.  NounEnds(t, i) is the set of positions right
\* after a noun that starts exactly at position i of t:
\*   atom := a digit, then digits and '.' separators
\*   cell := '[' ws* noun (ws+ noun)+ ws* ']'
AtomEnds(t, i) ==
    IF i <= Len(t) /\ is_digit(t[i])
    THEN {j \in (i + 1)..(Len(t) + 1) :
             \A m \in i..(j - 1) : is_digit(t[m]) \/ t[m] = "."}
    ELSE {}

RECURSIVE NounEnds(_, _)
RECURSIVE CellRest(_, _, _)

\* After n nouns of a cell, the last ending before position j: the cell may
\* close (n >= 2), or whitespace and one more noun follow.
CellRest(t, j, n) ==
    LET m == eat_space(t, j)
    IN  (IF n >= 2 /\ m <= Len(t) /\ t[m] = "]" THEN {m + 1} ELSE {})
        \cup (IF m > j
              THEN UNION {CellRest(t, e, n + 1) : e \in NounEnds(t, m)}
              ELSE {})

NounEnds(t, i) ==
    AtomEnds(t, i)
    \cup (IF i <= Len(t) /\ t[i] = "["
          THEN UNION {CellRest(t, e, 1) : e \in NounEnds(t, eat_space(t, i + 1))}
          ELSE {})

\* The whole text is one noun, whitespace around it allowed.
IsNounText(t) ==
    \E e \in NounEnds(t, eat_space(t, 1)) : eat_space(t, e) = Len(t) + 1

\* C8: parsing is all-or-nothing: from_str returns Ok only if the whole text
\* is one noun of the grammar, and Err(ParseError) for every other text.
C8_ParseAllOrNothing ==
    parsed # None =>
        /\ parsed.k = "ok" => IsNounText(text)
        /\ ~IsNounText(text) => parsed = ParseErr

\* Cell(n1, Cell(n2, ... Cell(n(k-1), nk))).
RECURSIVE RightFolded(_)
RightFolded(items) ==
    IF Len(items) = 1 THEN items[1]
    ELSE Cell(items[1], RightFolded(Tail(items)))

\* C9: the text "[n1 n2 ... nk]", k >= 2, parses to the right fold
\* Cell(n1, Cell(n2, ... Cell(n(k-1), nk))) of its nouns in their order; so
\* "[1 2 3]" and "[1 [2 3]]" give one noun, and "[[1 2] 3]" another.
C9_RightFold ==
    (kind = "list" /\ parsed # None) =>
        /\ parsed.k = "ok"
        /\ Noun_eq(parsed.v, RightFolded(elts))
        /\ (elts \in {<<NatAtom(1), NatAtom(2), NatAtom(3)>>,
                      <<NatAtom(1), Cell(NatAtom(2), NatAtom(3))>>})
              => parsed.v = Cell(NatAtom(1), Cell(NatAtom(2), NatAtom(3)))
        /\ elts = <<Cell(NatAtom(1), NatAtom(2)), NatAtom(3)>>
              => /\ parsed.v = Cell(Cell(NatAtom(1), NatAtom(2)), NatAtom(3))
                 /\ ~Noun_eq(parsed.v,
                             Cell(NatAtom(1), Cell(NatAtom(2), NatAtom(3))))

\* A list of three or more nouns, one of them a cell, has been parsed.
C9_Witness ==
    /\ kind = "list" /\ parsed # None /\ parsed.k = "ok"
    /\ Len(elts) >= 3
    /\ \E i \in 1..Len(elts) : IsCell(elts[i])

\* C10: the text Display gives for a parsed noun parses, to an equal noun;
\* a right-nested cell is printed flat (its right child without the opening
\* bracket of its own), a left-nested cell keeps its brackets.
C10_RoundTrip ==
    /\ reparsed # None => (reparsed.k = "ok" /\ Noun_eq(reparsed.v, parsed.v))
    /\ (printed # None /\ IsCell(parsed.v)) =>
          LET n == parsed.v
          IN  IF IsCell(n.r)
              THEN printed.s = <<"[">> \o Display(n.l) \o <<" ">>
                                   \o Tail(Display(n.r))
              ELSE printed.s = <<"[">> \o Display(n.l) \o <<" ">>
                                   \o Display(n.r) \o <<"]">>
    /\ (printed # None /\ parsed.v = Cell(NatAtom(1), Cell(NatAtom(2), NatAtom(3))))
          => printed.s = <<"[", "1", " ", "2", " ", "3", "]">>
    /\ (printed # None /\ parsed.v = Cell(Cell(NatAtom(1), NatAtom(2)), NatAtom(3)))
          => printed.s = <<"[", "[", "1", " ", "2", "]", " ", "3", "]">>

\* A right-nested cell holding a left-nested one went through print and
\* parse.
C10_Witness ==
    /\ reparsed # None /\ reparsed.k = "ok"
    /\ IsCell(parsed.v) /\ IsCell(parsed.v.r) /\ IsCell(parsed.v.l)

\* A text without its '.' characters.
RECURSIVE Undotted(_)
Undotted(o) ==
    IF o = <<>> THEN <<>>
    ELSE (IF Head(o) = "." THEN <<>> ELSE <<Head(o)>>) \o Undotted(Tail(o))

\* The digits s with a '.' before exactly the digits at the 0-based
\* positions i > 0 with Len(s) - i divisible by 3.
RECURSIVE GroupedFrom(_, _)
GroupedFrom(s, i) ==
    IF i >= Len(s) THEN <<>>
    ELSE (IF i > 0 /\ (Len(s) - i) % 3 = 0 THEN <<".">> ELSE <<>>)
             \o <<s[i + 1]>> \o GroupedFrom(s, i + 1)

\* The groups of o: the first has 1 to 3 digits, every '.' is followed by
\* exactly 3 digits, and no '.' leads or trails.
WellGrouped(o) ==
    LET dots == {j \in 1..Len(o) : o[j] = "."}
        first == IF dots = {} THEN Len(o) + 1
                 ELSE CHOOSE j \in dots : \A m \in dots : j <= m
    IN  /\ o # <<>> /\ o[1] # "." /\ o[Len(o)] # "."
        /\ first \in 2..4
        /\ \A j \in dots :
              /\ j + 3 <= Len(o)
              /\ \A m \in (j + 1)..(j + 3) : is_digit(o[m])
              /\ (j + 4 <= Len(o)) => o[j + 4] = "."

\* C11: an atom whose decimal form has L digits is printed as those digits
\* in order with a '.' before exactly the digits at positions i > 0 with
\* L - i divisible by 3: groups of 3 counted from the right, a leftmost
\* group of 1 to 3, no leading or trailing '.'.
C11_DotsFromTheRight ==
    (printed # None /\ IsAtom(parsed.v)) =>
        LET s == BigUint_decimal(parsed.v.d)
        IN  /\ printed.s = GroupedFrom(s, 0)
            /\ Undotted(printed.s) = s
            /\ WellGrouped(printed.s)
            /\ text = <<"1", "0", "0", "0", "0", "0", "0">>
                  => printed.s = <<"1", ".", "0", "0", "0", ".", "0", "0", "0">>
            /\ text = <<"1", "0", "0", "0">>
                  => printed.s = <<"1", ".", "0", "0", "0">>
            /\ text = <<"1", "0", "0">> => printed.s = <<"1", "0", "0">>

\* An atom of seven or more digits, whose length is no multiple of 3, has
\* been printed.
C11_Witness ==
    /\ printed # None /\ IsAtom(parsed.v)
    /\ Len(BigUint_decimal(parsed.v.d)) >= 7
    /\ Len(BigUint_decimal(parsed.v.d)) % 3 # 0

\* The number of nodes of a noun, and the nouns strictly inside a noun.
RECURSIVE Size(_)
Size(n) == IF IsCell(n) THEN 1 + Size(n.l) + Size(n.r) ELSE 1

RECURSIVE Inside(_, _)
Inside(x, n) ==
    IsCell(n) /\ (x = n.l \/ x = n.r \/ Inside(x, n.l) \/ Inside(x, n.r))

\* Every nested call is made on a strict sub-noun of the caller's formula,
\* and every Fire continuation leaves the frame a formula of fewer nodes.
CallsDescend ==
    /\ (stack # <<>> /\ Len(stack') = Len(stack) + 1) =>
            Inside(stack'[Len(stack')].formula, Top.formula)
    /\ (Resumed("fire_q") /\ ret.k = "ok") =>
            /\ Len(stack') = Len(stack)
            /\ Size(stack'[Len(stack')].formula) < Size(Top.formula)

\* C12: nock_on terminates for every subject and formula, with Ok, with
\* Err(NockError) or in the unimplemented axis: each nested call is made on
\* a strict sub-noun of the current formula and each Fire continuation
\* replaces the formula by a noun of strictly fewer nodes.
C12_Terminates == <>Done /\ [][CallsDescend]_vars

\* A call that went round the loop twice (a Fire whose q is a Fire again)
\* has returned.
C12_Witness ==
    /\ Done /\ result.k = "ok"
    /\ formula0 \in FireOf(JustOf(EvalAtoms), JustOf(SmallFires))

====
